---- MODULE Spec2Model ----
(***************************************************************************)
(* Model of the Lua module `finally` (src/finally.c).                      *)
(*                                                                         *)
(* finally( main, cleanup, minstack, mincalls, debug ) creates a coroutine *)
(* L2, drives the preallocation function in it until it yields, runs main  *)
(* under lua_pcall, resumes L2 (which calls cleanup from the outermost     *)
(* preallocation frame), resets the allocator and merges the outcomes.     *)
(*                                                                         *)
(* The state is a stack `inv` of lfinally activations (an activation may   *)
(* be started from inside the main or the cleanup function of another      *)
(* one), the process-wide Lua allocator `allocf`, and the Lua version the  *)
(* module was compiled for.  lua_Integer is modelled as a two's complement *)
(* integer of IntegerBits bits.  `request` is the call of the allocator    *)
(* made by the last step, if that step made one.                           *)
(***************************************************************************)
EXTENDS Integers, Sequences, FiniteSets, TLC

VARIABLES inv, allocf, LUA_VERSION_NUM, request

vars == <<inv, allocf, LUA_VERSION_NUM, request>>

(* ------------------------------ bounds --------------------------------- *)

\* width of lua_Integer in the model
IntegerBits == 3
\* maximal nesting of lfinally activations
MaxDepth == 2
\* largest block size in a request to the allocator
MaxSize == 2

(* ---------------------------- Lua constants ---------------------------- *)

LUA_YIELD == 1
LUA_ERRRUN == 2
LUA_ERRMEM == 4

LUA_MAXINTEGER == (2 ^ (IntegerBits - 1)) - 1
LUA_MININTEGER == 0 - (2 ^ (IntegerBits - 1))

\* result of an lua_Integer addition that leaves the range, where the
\* build wraps around
Wrap(x) == ((x + 2 ^ (IntegerBits - 1)) % (2 ^ IntegerBits)) - 2 ^ (IntegerBits - 1)

(* ------------------------------ Lua values ----------------------------- *)

Nil == [tt |-> "nil", n |-> 0, s |-> ""]
Num(i) == [tt |-> "number", n |-> i, s |-> ""]
Bool(b) == [tt |-> "boolean", n |-> IF b THEN 1 ELSE 0, s |-> ""]
Str(x) == [tt |-> "string", n |-> 0, s |-> x]
Fn(x) == [tt |-> "function", n |-> 0, s |-> x]
Thread == [tt |-> "thread", n |-> 0, s |-> "L2"]
\* light userdata holding the address of the `as` local of activation lvl
LightUD(lvl) == [tt |-> "lightuserdata", n |-> lvl, s |-> "as"]

lua_gettop(stk) == Len(stk)
lua_settop(stk, n) == IF n <= Len(stk) THEN SubSeq(stk, 1, n)
                      ELSE stk \o [i \in 1..(n - Len(stk)) |-> Nil]
lua_tointeger(stk, idx) ==
  IF idx <= Len(stk) /\ stk[idx].tt = "number" THEN stk[idx].n ELSE 0
lua_toboolean(stk, idx) ==
  IF idx > Len(stk) THEN FALSE
  ELSE IF stk[idx].tt = "nil" THEN FALSE
  ELSE IF stk[idx].tt = "boolean" THEN stk[idx].n = 1
  ELSE TRUE
lua_isfunction(stk, idx) == idx <= Len(stk) /\ stk[idx].tt = "function"
\* address stored in a light userdata, 0 for NULL
lua_touserdata(stk, idx) ==
  IF idx <= Len(stk) /\ stk[idx].tt = "lightuserdata" THEN stk[idx].n ELSE 0
\* the last n values of a stack
TopN(stk, n) == SubSeq(stk, Len(stk) - n + 1, Len(stk))
\* the stack without its last n values
PopN(stk, n) == SubSeq(stk, 1, Len(stk) - n)

(* --------------------------- error messages ---------------------------- *)

MSG_YIELD == Str("'finally' cleanup function shouldn't yield")
MSG_BADSTACK == Str("bad argument #3 (invalid number of reserved stack slots)")
MSG_BADCALLS == Str("bad argument #4 (invalid minimum number of call frames)")
MSG_MEM == Str("not enough memory")
MSG_OVERFLOW == Str("stack overflow")
MSG_CYIELD == Str("attempt to yield across a C-call boundary")

(* --------------------------- the allocator ----------------------------- *)

NULL_ALLOC == [alloc |-> "NULL", ud |-> 0]
L_ALLOC == [alloc |-> "l_alloc", ud |-> 0]

IsGrowth_OrEqual(ptrNull, osize, nsize) == nsize > 0 /\ (ptrNull \/ osize <= nsize)

IsGrowth_ResizeOnly(ptrNull, osize, nsize) == nsize > 0 /\ ~ptrNull /\ osize < nsize

IsGrowth_AnyResize(ptrNull, osize, nsize) == nsize > 0 /\ (ptrNull \/ osize # nsize)

\* a request that needs more memory than the block has
IsGrowth(ptrNull, osize, nsize) == nsize > 0 /\ (ptrNull \/ osize < nsize)

\* can a request be served by allocator a?  alloc_fail refuses growth and
\* hands everything else to the allocator saved in its alloc_state; the
\* allocator of the host serves everything it has memory for.
RECURSIVE alloc_results(_, _, _, _)
alloc_results(a, ptrNull, osize, nsize) ==
  IF a.alloc = "alloc_fail"
  THEN IF IsGrowth(ptrNull, osize, nsize)
       THEN {"NULL"}
       ELSE alloc_results(inv[a.ud].as, ptrNull, osize, nsize)
  ELSE IF IsGrowth(ptrNull, osize, nsize) THEN {"NULL", "block"}
  ELSE IF nsize = 0 THEN {"NULL"} ELSE {"block"}

\* does request q ask for more memory than its block has?  (what Lua
\* treats as a failed allocation when the answer is NULL)
IsGrowthRequest(q) == q.nsize > 0 /\ (q.ptrNull \/ q.osize < q.nsize)

\* the calls of allocator functions that one request to allocator a
\* causes, in order: the call of a itself, then what a hands on
RECURSIVE alloc_calls(_, _, _, _)
alloc_calls(a, ptrNull, osize, nsize) ==
  <<[alloc |-> a.alloc, ud |-> a.ud,
     ptrNull |-> ptrNull, osize |-> osize, nsize |-> nsize]>>
  \o IF a.alloc = "alloc_fail" /\ ~IsGrowth(ptrNull, osize, nsize)
     THEN alloc_calls(inv[a.ud].as, ptrNull, osize, nsize)
     ELSE <<>>

\* the requests a function can make
Requests ==
  [ptrNull : BOOLEAN, osize : 0..MaxSize, nsize : 0..MaxSize]

NoRequest ==
  [by |-> "none", lvl |-> 0, ptrNull |-> FALSE, osize |-> 0, nsize |-> 0,
   ret |-> "none", calls |-> <<>>]

\* a request made by `by` in activation lvl and answered with ret
Request(by, lvl, q, ret) ==
  [by |-> by, lvl |-> lvl, ptrNull |-> q.ptrNull, osize |-> q.osize,
   nsize |-> q.nsize, ret |-> ret,
   calls |-> alloc_calls(allocf, q.ptrNull, q.osize, q.nsize)]

(* ------------------------- lfinally activations ------------------------ *)

top == Len(inv)
cur == inv[top]

NoOutcome == [kind |-> "none", vals |-> <<>>]

NewActivation(ms, mc, dbg) ==
  [ pc |-> "args",
    L |-> <<Fn("main"), Fn("cleanup"), Num(ms), Num(mc), Bool(dbg)>>,
    minstack |-> 0, mincalls |-> 0, debug |-> FALSE,
    status |-> 0, status2 |-> 0,
    as |-> NULL_ALLOC,
    L2 |-> <<>>, L2status |-> "NULL", L2stack |-> <<>>,
    \* observations
    caller |-> IF top = 0 THEN "host" ELSE cur.pc,
    arg_minstack |-> ms, arg_mincalls |-> mc, arg_debug |-> dbg,
    alloc0 |-> allocf,
    log |-> <<>>,
    cleanupCalls |-> 0, cleanupArgs |-> <<>>, cleanupDepth |-> 0,
    suspendDepth |-> 0, handed |-> 0, L2checked |-> 0,
    mainRes |-> NoOutcome, cleanupRes |-> NoOutcome,
    cleanupYield |-> FALSE, cleanupAsked |-> FALSE, cleanupGrew |-> FALSE,
    setupErr |-> NoOutcome,
    result |-> NoOutcome ]

Upd(r) == inv' = [inv EXCEPT ![top] = r]

\* lua_error / luaL_error with msg on top of the stack
Raise(r, msg) ==
  [r EXCEPT !.pc = "raised", !.result = [kind |-> "raise", vals |-> <<msg>>],
            !.log = @ \o <<"exit">>]

\* values offered as third and as fourth argument
StackValues == {0, 2}
CallValues == {-1, 1, LUA_MAXINTEGER}

Init ==
  /\ inv = <<>>
  /\ allocf = L_ALLOC
  /\ LUA_VERSION_NUM \in {501, 502, 503}
  /\ request = NoRequest

\* finally( main, cleanup, ms, mc, dbg ) is called by the host, or from
\* inside a running main or cleanup function
Call ==
  /\ top < MaxDepth
  /\ top > 0 => cur.pc \in {"main", "cleanup"}
  /\ \E ms \in StackValues, mc \in CallValues, dbg \in BOOLEAN :
       inv' = Append(inv, NewActivation(ms, mc, dbg))
  /\ request' = NoRequest
  /\ UNCHANGED <<allocf, LUA_VERSION_NUM>>

ArgError_StackOnly(minstack, mincalls) ==
  IF ~(minstack > 0) THEN MSG_BADSTACK ELSE Nil

\* the two luaL_argcheck conditions
ArgError(minstack, mincalls) ==
  IF ~(minstack > 0) THEN MSG_BADSTACK
  ELSE IF ~(mincalls > 0) THEN MSG_BADCALLS
  ELSE Nil

\* lines 212-221: read and check the arguments
lfinally_args ==
  /\ top > 0 /\ cur.pc = "args"
  /\ LET minstack == lua_tointeger(cur.L, 3)
         mincalls == lua_tointeger(cur.L, 4)
         err == ArgError(minstack, mincalls)
         r1 == [cur EXCEPT !.minstack = minstack]
         r2 == [r1 EXCEPT !.mincalls = mincalls,
                          !.debug = lua_toboolean(cur.L, 5),
                          !.L = lua_settop(cur.L, 2),
                          !.pc = "newthread"]
     IN  IF err = MSG_BADSTACK THEN Upd(Raise(r1, err))
         ELSE IF err = MSG_BADCALLS
              THEN Upd(Raise([r1 EXCEPT !.mincalls = mincalls], err))
              ELSE Upd(r2)
  /\ request' = NoRequest
  /\ UNCHANGED <<allocf, LUA_VERSION_NUM>>

\* mincalls += 1 (line 225): the values the build can leave in mincalls.
\* Adding 1 to the largest lua_Integer is a signed overflow; a build that
\* wraps leaves the smallest lua_Integer, a build that traps stops the
\* process ("trap").
IncrementOutcomes(mincalls) ==
  IF mincalls < LUA_MAXINTEGER THEN {Num(mincalls + 1)}
  ELSE {Num(Wrap(mincalls + 1)), Str("trap")}

\* number of call frames handed to the preallocation function
AdjustedCalls(mincalls) ==
  IF LUA_VERSION_NUM > 501 THEN IncrementOutcomes(mincalls) ELSE {Num(mincalls)}

\* a frame of the preallocation function in L2: its stack (index 1 is the
\* first argument), the continuation context, and the slots it reserved
Frame(stk) == [stk |-> stk, ctx |-> 0, reserved |-> 0]

AllocAfterSave_Install(r, a) ==
  IF r.debug THEN [alloc |-> "alloc_fail", ud |-> top] ELSE a

\* lines 245-249: lua_getallocf only reads the allocator of the Lua state
AllocAfterSave(r, a) == a

\* lines 223-255: create the coroutine, push the preallocation function and
\* its arguments, save the allocator, and resume the coroutine
lfinally_newthread ==
  /\ top > 0 /\ cur.pc = "newthread"
  /\ \E mem \in alloc_results(allocf, TRUE, 0, 1),
        c \in AdjustedCalls(cur.mincalls) :
       /\ request' = Request("lfinally", top,
                              [ptrNull |-> TRUE, osize |-> 0, nsize |-> 1], mem)
       /\ IF mem = "NULL"
          THEN Upd(Raise(cur, MSG_MEM))
          ELSE IF c = Str("trap")
          THEN Upd([cur EXCEPT !.pc = "trapped", !.L2status = "fresh",
                               !.L = Append(@, Thread)])
          ELSE LET asv == IF cur.debug THEN allocf ELSE NULL_ALLOC
                   asarg == IF cur.debug THEN LightUD(top) ELSE Nil
                   stk == <<Fn("preallocate"), c, Num(cur.minstack), asarg, cur.L[2]>>
               IN  Upd([cur EXCEPT
                          !.mincalls = c.n,
                          !.handed = c.n,
                          !.L2checked = IF LUA_VERSION_NUM = 501
                                        THEN cur.minstack ELSE 0,
                          !.as = asv,
                          !.L = <<cur.L[1], Thread>>,
                          !.L2 = <<Frame(stk)>>,
                          !.L2status = "running",
                          !.pc = "resume1",
                          !.log = @ \o <<"newthread">>])
  /\ allocf' = AllocAfterSave(cur, allocf)
  /\ UNCHANGED LUA_VERSION_NUM

\* the innermost frame of the coroutine
depth == Len(cur.L2)
frame == cur.L2[depth]

\* the coroutine stops with an error: status and message for lua_resume
ThreadError(r, msg) ==
  [r EXCEPT !.L2status = "error", !.L2stack = <<msg>>]

RecursiveArgs_AllArgs(stk, calls) ==
  <<stk[1], Num(calls - 1)>> \o SubSeq(stk, 3, Len(stk))

RecursiveArgs_WithSlots(stk, calls) ==
  <<stk[1], Num(calls - 1)>> \o SubSeq(stk, 3, 3)

\* lines 125-127 (Lua 5.1: line 179): the arguments of the recursive call
RecursiveArgs(stk, calls) == <<stk[1], Num(calls - 1)>>

\* lines 119-128, 137-138 (Lua 5.1: lines 176-182): one call of the
\* preallocation function up to its recursive call or its yield
preallocatek_case0 ==
  /\ top > 0 /\ cur.pc = "resume1" /\ cur.L2status = "running"
  /\ frame.ctx = 0
  /\ LET calls == lua_tointeger(frame.stk, 2)
         stack == lua_tointeger(frame.stk, 3)
     IN \E fail \in {"no", "checkstack", "call"} :
          /\ fail = "checkstack" => stack # 0
          /\ fail = "call" => calls > 0
          /\ IF fail = "checkstack"
             THEN Upd([ThreadError(cur, Str("stack overflow (preallocate)"))
                         EXCEPT !.status = LUA_ERRRUN, !.pc = "resumed1",
                                !.setupErr = [kind |-> "checkstack",
                                   vals |-> <<Str("stack overflow (preallocate)")>>]])
             ELSE IF fail = "call"
             THEN Upd([ThreadError(cur, MSG_OVERFLOW)
                         EXCEPT !.status = LUA_ERRRUN, !.pc = "resumed1",
                                !.L2[depth].reserved = stack,
                                !.setupErr = [kind |-> "call",
                                              vals |-> <<MSG_OVERFLOW>>]])
             ELSE IF calls > 0
             THEN Upd([cur EXCEPT
                         !.L2 = Append([@ EXCEPT ![depth].ctx = 1,
                                                 ![depth].reserved = stack],
                                       Frame(RecursiveArgs(frame.stk, calls)))])
             ELSE Upd([cur EXCEPT
                         !.L2[depth].reserved = stack,
                         !.L2status = "yield",
                         !.suspendDepth = depth,
                         !.status = LUA_YIELD,
                         !.pc = "resumed1",
                         !.log = @ \o <<"suspend">>])
  /\ request' = NoRequest
  /\ UNCHANGED <<allocf, LUA_VERSION_NUM>>

SetupFailed_MemoryOnly(status) == status = LUA_ERRMEM

\* line 256: did the first resume end without a yield?
SetupFailed(status) == status # LUA_YIELD

lfinally_pcall_BeforeResume ==
  /\ top > 0 /\ cur.pc = "resume1"
  /\ Upd([cur EXCEPT !.pc = "main", !.log = @ \o <<"main_start">>])
  /\ request' = NoRequest
  /\ UNCHANGED <<allocf, LUA_VERSION_NUM>>

\* lines 256-262: an error of the first resume is raised, otherwise the
\* main function is called with lua_pcall
lfinally_pcall ==
  /\ top > 0 /\ cur.pc = "resumed1"
  /\ IF SetupFailed(cur.status)
     THEN Upd(Raise([cur EXCEPT !.L = Append(@, cur.L2stack[Len(cur.L2stack)]),
                                !.L2stack = PopN(@, 1)],
                    cur.L2stack[Len(cur.L2stack)]))
     ELSE Upd([cur EXCEPT !.pc = "main", !.log = @ \o <<"main_start">>])
  /\ request' = NoRequest
  /\ UNCHANGED <<allocf, LUA_VERSION_NUM>>

\* the main function makes a request to the allocator of the Lua state
main_alloc ==
  /\ top > 0 /\ cur.pc = "main"
  /\ \E q \in Requests :
     \E mem \in alloc_results(allocf, q.ptrNull, q.osize, q.nsize) :
       request' = Request("main", top, q, mem)
  /\ UNCHANGED <<inv, allocf, LUA_VERSION_NUM>>

\* what the main function can do: return values or raise an error
MainOutcomes ==
  { [kind |-> "ok", vals |-> v] : v \in {<<>>, <<Str("a")>>, <<Str("a"), Str("b")>>} }
  \cup { [kind |-> "error", vals |-> <<Str("e_main")>>] }

\* line 262: lua_pcall returns; the results or the error message of the
\* main function are on the stack of L
main_end ==
  /\ top > 0 /\ cur.pc = "main"
  /\ \E out \in MainOutcomes :
       Upd([cur EXCEPT !.status = IF out.kind = "ok" THEN 0 ELSE LUA_ERRRUN,
                       !.L = @ \o out.vals,
                       !.mainRes = out,
                       !.pc = "resume2",
                       !.log = @ \o <<"main_end">>])
  /\ request' = NoRequest
  /\ UNCHANGED <<allocf, LUA_VERSION_NUM>>

\* a frame of the coroutine returns the values rets: they are appended to
\* the stack of the calling frame, or, for the outermost frame, the
\* coroutine ends normally and lua_resume returns 0
FrameReturn(r, rets) ==
  IF Len(r.L2) > 1
  THEN [r EXCEPT !.L2 = [SubSeq(r.L2, 1, Len(r.L2) - 1)
                           EXCEPT ![Len(r.L2) - 1].stk = @ \o rets],
                 !.L2status = "running"]
  ELSE [r EXCEPT !.L2 = <<>>, !.L2status = "dead", !.L2stack = rets,
                 !.status2 = 0, !.pc = "resumed2"]

\* lines 265-270: empty the stack of the yielded frame, pass the error of
\* the main function, and resume: the yield returns the passed values
lfinally_resume2 ==
  /\ top > 0 /\ cur.pc = "resume2" /\ cur.L2status = "yield"
  /\ LET nargs == IF cur.status # 0 THEN 1 ELSE 0
         stk0 == lua_settop(frame.stk, 0)
         stk1 == IF cur.status # 0 THEN Append(stk0, cur.L[Len(cur.L)]) ELSE stk0
         r == [cur EXCEPT !.L2[depth].stk = stk1, !.log = @ \o <<"resume2">>]
     IN Upd(FrameReturn(r, TopN(stk1, nargs)))
  /\ request' = NoRequest
  /\ UNCHANGED <<allocf, LUA_VERSION_NUM>>

\* line 130 (Lua 5.1: line 169): is this the frame that got the cleanup
\* function?
HasCleanup(stk) == lua_isfunction(stk, 5)

ForwardedValues_None(stk) == <<>>

\* line 140 (Lua 5.1: line 173): the values a frame without cleanup
\* function hands to its caller
ForwardedValues(stk) ==
  IF LUA_VERSION_NUM > 501
  THEN TopN(stk, IF lua_gettop(stk) > 2 THEN 1 ELSE 0)
  ELSE SubSeq(stk, 3, Len(stk))

\* lines 130, 140: the continuation of a frame that has no cleanup function
preallocatek_return ==
  /\ top > 0 /\ cur.pc = "resume2" /\ cur.L2status = "running"
  /\ frame.ctx = 1
  /\ ~HasCleanup(frame.stk)
  /\ Upd(FrameReturn(cur, ForwardedValues(frame.stk)))
  /\ request' = NoRequest
  /\ UNCHANGED <<allocf, LUA_VERSION_NUM>>

SetAlloc_Always(stk, a) == [alloc |-> "alloc_fail", ud |-> top]

\* lines 131-133 (Lua 5.1: lines 170, 155-160): the allocator after the
\* frame with the cleanup function looked at its alloc_state argument
SetAlloc(stk, a) ==
  IF lua_touserdata(stk, 4) # 0
  THEN [alloc |-> "alloc_fail", ud |-> lua_touserdata(stk, 4)]
  ELSE a

\* lines 130-133: the continuation of the frame with the cleanup function
\* installs alloc_fail if it got an alloc_state
preallocatek_setalloc ==
  /\ top > 0 /\ cur.pc = "resume2" /\ cur.L2status = "running"
  /\ frame.ctx = 1
  /\ HasCleanup(frame.stk)
  /\ allocf' = SetAlloc(frame.stk, allocf)
  /\ Upd([cur EXCEPT !.L2[depth].ctx = 2,
                     !.log = IF allocf' # allocf THEN @ \o <<"install">> ELSE @])
  /\ request' = NoRequest
  /\ UNCHANGED LUA_VERSION_NUM

\* line 134 (Lua 5.1: line 171): the cleanup function is called with the
\* values above it on the stack
preallocatek_call ==
  /\ top > 0 /\ cur.pc = "resume2" /\ cur.L2status = "running"
  /\ frame.ctx = 2
  /\ Upd([cur EXCEPT !.pc = "cleanup",
                     !.cleanupCalls = @ + 1,
                     !.cleanupArgs = TopN(frame.stk, lua_gettop(frame.stk) - 5),
                     !.cleanupDepth = depth + 1,
                     !.L2[depth].stk = SubSeq(frame.stk, 1, 4),
                     !.log = @ \o <<"cleanup_start">>])
  /\ request' = NoRequest
  /\ UNCHANGED <<allocf, LUA_VERSION_NUM>>

\* how lua_resume reports a cleanup function that raised msg
CleanupError(r, msg, st) ==
  [ThreadError(r, msg) EXCEPT !.status2 = st, !.pc = "resumed2",
                              !.cleanupRes = [kind |-> "error", vals |-> <<msg>>],
                              !.log = @ \o <<"cleanup_end">>]

\* the cleanup function makes a request to the allocator of the Lua state;
\* when the answer is NULL for a size that is not 0, Lua raises a memory
\* error in the cleanup function
cleanup_alloc ==
  /\ top > 0 /\ cur.pc = "cleanup"
  /\ \E q \in Requests :
     \E mem \in alloc_results(allocf, q.ptrNull, q.osize, q.nsize) :
       /\ request' = Request("cleanup", top, q, mem)
       /\ IF mem = "NULL" /\ q.nsize > 0
          THEN Upd(CleanupError([cur EXCEPT !.cleanupAsked = @ \/ IsGrowthRequest(q)],
                                MSG_MEM, LUA_ERRMEM))
          ELSE Upd([cur EXCEPT !.cleanupAsked = @ \/ IsGrowthRequest(q),
                               !.cleanupGrew = @ \/ IsGrowthRequest(q)])
  /\ UNCHANGED <<allocf, LUA_VERSION_NUM>>

\* what a cleanup function can do by itself: return values, raise an
\* error, or call coroutine.yield
CleanupOutcomes == {"ok", "error", "yield"}

\* a yield of the cleanup function suspends the coroutine when cleanup was
\* called from Lua code (Lua 5.1); it cannot pass the lua_call of line 134
YieldSuspends == LUA_VERSION_NUM = 501

\* line 134-135 (Lua 5.1: line 171): the cleanup function ends
cleanup_end ==
  /\ top > 0 /\ cur.pc = "cleanup"
  /\ \E out \in CleanupOutcomes :
       IF out = "ok"
       THEN Upd([FrameReturn(cur, <<>>)
                   EXCEPT !.cleanupRes = [kind |-> "ok", vals |-> <<Str("c")>>],
                          !.log = @ \o <<"cleanup_end">>])
       ELSE IF out = "error"
       THEN Upd(CleanupError(cur, Str("e_cleanup"), LUA_ERRRUN))
       ELSE IF YieldSuspends
       THEN Upd([cur EXCEPT !.L2status = "yield", !.L2stack = <<>>,
                            !.status2 = LUA_YIELD, !.pc = "resumed2",
                            !.cleanupYield = TRUE,
                            !.cleanupRes = [kind |-> "yield", vals |-> <<>>],
                            !.log = @ \o <<"cleanup_end">>])
       ELSE Upd(CleanupError([cur EXCEPT !.cleanupYield = TRUE], MSG_CYIELD, LUA_ERRRUN))
  /\ request' = NoRequest
  /\ UNCHANGED <<allocf, LUA_VERSION_NUM>>

ResetAlloc_Never(r, a) == a

ResetAlloc_OnSuccess(r, a) == IF r.debug /\ r.status2 = 0 THEN r.as ELSE a

\* lines 271-272: the allocator after the second resume
ResetAlloc(r, a) == IF r.debug THEN r.as ELSE a

\* lines 271-272: reset memory allocation function
lfinally_reset ==
  /\ top > 0 /\ cur.pc = "resumed2"
  /\ allocf' = ResetAlloc(cur, allocf)
  /\ Upd([cur EXCEPT !.pc = "merge",
                     !.log = IF cur.debug THEN @ \o <<"restore">> ELSE @])
  /\ request' = NoRequest
  /\ UNCHANGED LUA_VERSION_NUM

Merge_MainFirst(r) ==
  IF r.status # 0
  THEN [kind |-> "raise", vals |-> TopN(r.L, 1)]
  ELSE IF r.status2 = LUA_YIELD
  THEN [kind |-> "raise", vals |-> <<MSG_YIELD>>]
  ELSE IF r.status2 # 0
  THEN [kind |-> "raise", vals |-> TopN(r.L2stack, 1)]
  ELSE [kind |-> "return", vals |-> TopN(r.L, lua_gettop(r.L) - 2)]

Merge_OffByOne(r) ==
  IF r.status2 = LUA_YIELD
  THEN [kind |-> "raise", vals |-> <<MSG_YIELD>>]
  ELSE IF r.status2 # 0
  THEN [kind |-> "raise", vals |-> TopN(r.L2stack, 1)]
  ELSE IF r.status # 0
  THEN [kind |-> "raise", vals |-> TopN(r.L, 1)]
  ELSE [kind |-> "return", vals |-> TopN(r.L, lua_gettop(r.L) - 1)]

Merge_MainErrorLost(r) ==
  IF r.status2 = LUA_YIELD
  THEN [kind |-> "raise", vals |-> <<MSG_YIELD>>]
  ELSE IF r.status2 # 0
  THEN [kind |-> "raise", vals |-> TopN(r.L2stack, 1)]
  ELSE [kind |-> "return", vals |-> TopN(r.L, lua_gettop(r.L) - 2)]

Merge_YieldIgnored(r) ==
  IF r.status2 # 0 /\ r.status2 # LUA_YIELD
  THEN [kind |-> "raise", vals |-> TopN(r.L2stack, 1)]
  ELSE IF r.status # 0
  THEN [kind |-> "raise", vals |-> TopN(r.L, 1)]
  ELSE [kind |-> "return", vals |-> TopN(r.L, lua_gettop(r.L) - 2)]

\* lines 273-285: what lfinally raises or returns
Merge(r) ==
  IF r.status2 = LUA_YIELD
  THEN [kind |-> "raise", vals |-> <<MSG_YIELD>>]
  ELSE IF r.status2 # 0
  THEN [kind |-> "raise",
        vals |-> TopN(Append(lua_settop(r.L, 0), r.L2stack[Len(r.L2stack)]), 1)]
  ELSE IF r.status # 0
  THEN [kind |-> "raise", vals |-> TopN(r.L, 1)]
  ELSE [kind |-> "return", vals |-> TopN(r.L, lua_gettop(r.L) - 2)]

\* lines 273-285: raise the error of cleanup, or the error of main, or
\* return the results of main
lfinally_merge ==
  /\ top > 0 /\ cur.pc = "merge"
  /\ Upd([cur EXCEPT !.result = Merge(cur),
                     !.pc = IF Merge(cur).kind = "return" THEN "returned" ELSE "raised",
                     !.log = @ \o <<"exit">>])
  /\ request' = NoRequest
  /\ UNCHANGED <<allocf, LUA_VERSION_NUM>>

\* the activation is over: control is back in the host, or in the main or
\* cleanup function that called finally
Return ==
  /\ top > 0 /\ cur.pc \in {"returned", "raised"}
  /\ inv' = SubSeq(inv, 1, top - 1)
  /\ request' = NoRequest
  /\ UNCHANGED <<allocf, LUA_VERSION_NUM>>

(* ------------------------------ properties ---------------------------- *)

Levels == 1..Len(inv)
Ended(r) == r.pc \in {"returned", "raised"}
Has(log, e) == \E k \in 1..Len(log) : log[k] = e
\* position of the first occurrence of e in log, 0 if there is none
Pos(log, e) == IF Has(log, e)
               THEN CHOOSE k \in 1..Len(log) :
                      log[k] = e /\ \A j \in 1..(k - 1) : log[j] # e
               ELSE 0
Before(log, a, b) == Pos(log, a) > 0 /\ Pos(log, a) < Pos(log, b)

\* C1: when the cleanup function fails, whatever the main function did,
\* finally raises exactly the error of the cleanup function; neither the
\* results nor the error of the main function come out.
C1_CleanupErrorRaised ==
  \A i \in Levels :
    (Ended(inv[i]) /\ inv[i].cleanupRes.kind = "error")
      => /\ inv[i].result = [kind |-> "raise", vals |-> inv[i].cleanupRes.vals]
         /\ inv[i].result.vals # inv[i].mainRes.vals

C1_Witness ==
  \E i \in Levels :
    /\ Ended(inv[i])
    /\ inv[i].cleanupRes = [kind |-> "error", vals |-> <<Str("e_cleanup")>>]
    /\ inv[i].mainRes.kind = "error"

\* C2: when the main function and the cleanup function both succeed,
\* finally returns exactly the results of the main function (same values,
\* order and count); the results of the cleanup function are dropped.
C2_MainResultsReturned ==
  \A i \in Levels :
    (Ended(inv[i]) /\ inv[i].mainRes.kind = "ok" /\ inv[i].cleanupRes.kind = "ok")
      => inv[i].result = [kind |-> "return", vals |-> inv[i].mainRes.vals]

C2_Witness ==
  \E i \in Levels :
    /\ Ended(inv[i])
    /\ inv[i].mainRes = [kind |-> "ok", vals |-> <<Str("a"), Str("b")>>]
    /\ inv[i].cleanupRes = [kind |-> "ok", vals |-> <<Str("c")>>]

\* C3: when the main function fails and the cleanup function succeeds,
\* finally raises the error of the main function, and does so after the
\* cleanup function has completed.
C3_MainErrorReraised ==
  \A i \in Levels :
    (Ended(inv[i]) /\ inv[i].mainRes.kind = "error" /\ inv[i].cleanupRes.kind = "ok")
      => /\ inv[i].result = [kind |-> "raise", vals |-> inv[i].mainRes.vals]
         /\ Before(inv[i].log, "cleanup_end", "exit")

C3_Witness ==
  \E i \in Levels :
    /\ inv[i].pc = "raised"
    /\ inv[i].mainRes.kind = "error"
    /\ inv[i].cleanupRes.kind = "ok"
    /\ inv[i].cleanupArgs = inv[i].mainRes.vals

\* C4: the cleanup function runs exactly once in every call of finally
\* that got to run its main function: never zero times, never twice.
C4_CleanupRunsOnce ==
  \A i \in Levels :
    /\ inv[i].cleanupCalls <= 1
    /\ (Ended(inv[i]) /\ inv[i].mainRes.kind # "none") => inv[i].cleanupCalls = 1

\* C5: when a call of finally with a true fifth argument returns or raises,
\* on whatever path, the allocator of the Lua state is the one that was
\* installed when the call started, and alloc_fail is not left behind.
C5_AllocatorRestored ==
  /\ \A i \in Levels :
       (Ended(inv[i]) /\ inv[i].arg_debug) => allocf = inv[i].alloc0
  /\ inv = <<>> => allocf.alloc # "alloc_fail"

C5_Witness ==
  \E i \in Levels :
    /\ Ended(inv[i]) /\ inv[i].arg_debug
    /\ Has(inv[i].log, "install")
    /\ inv[i].cleanupRes.kind = "error"

\* C6: with minstack <= 0 or mincalls <= 0, finally raises an argument
\* error before the coroutine is created and before the main or the
\* cleanup function runs.
C6_InvalidBudgetRejected ==
  \A i \in Levels :
    (inv[i].arg_minstack <= 0 \/ inv[i].arg_mincalls <= 0)
      => /\ inv[i].pc \in {"args", "raised"}
         /\ inv[i].L2status = "NULL"
         /\ ~Has(inv[i].log, "main_start")
         /\ inv[i].cleanupCalls = 0
         /\ inv[i].pc = "raised"
              => /\ inv[i].result.kind = "raise"
                 /\ inv[i].result.vals \in {<<MSG_BADSTACK>>, <<MSG_BADCALLS>>}

C6_Witness ==
  \E i \in Levels :
    /\ inv[i].arg_minstack > 0 /\ inv[i].arg_mincalls <= 0
    /\ inv[i].pc = "raised"
    /\ inv[i].result.vals = <<MSG_BADCALLS>>

\* C7 (as stated): when the cleanup function tries to yield, finally
\* raises the fixed message "'finally' cleanup function shouldn't yield".
C7_YieldRaisesFixedMessage ==
  \A i \in Levels :
    (Ended(inv[i]) /\ inv[i].cleanupYield)
      => inv[i].result = [kind |-> "raise", vals |-> <<MSG_YIELD>>]

\* C7 (amended): when the cleanup function tries to yield, finally never
\* returns; it raises an error that replaces the outcome of the main
\* function: the fixed message when built for Lua 5.1, and the error that
\* the yield itself raises inside the cleanup function when built for Lua
\* 5.2 or 5.3.
C7_YieldRaises ==
  \A i \in Levels :
    (Ended(inv[i]) /\ inv[i].cleanupYield)
      => /\ inv[i].result.kind = "raise"
         /\ inv[i].result.vals =
              IF LUA_VERSION_NUM = 501 THEN <<MSG_YIELD>> ELSE <<MSG_CYIELD>>
         /\ inv[i].result.vals # inv[i].mainRes.vals

C7_Witness ==
  \E i \in Levels :
    /\ Ended(inv[i]) /\ inv[i].cleanupYield
    /\ inv[i].status2 = LUA_YIELD
    /\ inv[i].mainRes.kind = "ok"

\* C8: the main function starts only after the preallocation function has
\* yielded, and has ended before the coroutine is resumed the second time;
\* the cleanup function never starts before the main function has ended.
C8_MainBetweenResumes ==
  \A i \in Levels :
    /\ inv[i].pc = "main"
         => /\ inv[i].L2status = "yield"
            /\ inv[i].cleanupCalls = 0
    /\ Has(inv[i].log, "main_start") => Before(inv[i].log, "suspend", "main_start")
    /\ Has(inv[i].log, "resume2") => Before(inv[i].log, "main_end", "resume2")
    /\ Has(inv[i].log, "cleanup_start")
         => /\ Before(inv[i].log, "main_end", "cleanup_start")
            /\ Before(inv[i].log, "resume2", "cleanup_start")
    /\ inv[i].pc = "cleanup" => inv[i].mainRes.kind # "none"

C8_Witness ==
  \E i \in Levels :
    /\ inv[i].pc = "cleanup"
    /\ inv[i].mainRes.kind = "ok"

\* C9: when the first resume of the coroutine ends with anything but a
\* yield, finally raises that error at once, and neither the main nor the
\* cleanup function is run.
C9_SetupFailureRaised ==
  \A i \in Levels :
    inv[i].setupErr.kind # "none"
      => /\ inv[i].pc \in {"resumed1", "raised"}
         /\ ~Has(inv[i].log, "main_start")
         /\ inv[i].mainRes.kind = "none"
         /\ inv[i].cleanupCalls = 0
         /\ inv[i].pc = "raised"
              => inv[i].result = [kind |-> "raise", vals |-> inv[i].setupErr.vals]

C9_Witness ==
  \E i \in Levels :
    /\ inv[i].setupErr.kind = "call"
    /\ inv[i].pc = "raised"

\* C10: with a true fifth argument, alloc_fail is installed after the
\* preallocation function has yielded and before the cleanup function
\* starts; with a false one it is never installed.
C10_OverrideInstalledBetween ==
  \A i \in Levels :
    /\ Has(inv[i].log, "install")
         => /\ inv[i].arg_debug
            /\ Before(inv[i].log, "suspend", "install")
    /\ (Has(inv[i].log, "cleanup_start") /\ inv[i].arg_debug)
         => Before(inv[i].log, "install", "cleanup_start")
    /\ (inv[i].pc = "cleanup" /\ inv[i].arg_debug)
         => allocf = [alloc |-> "alloc_fail", ud |-> i]
    /\ (allocf.alloc = "alloc_fail" /\ allocf.ud = i)
         => inv[i].arg_debug /\ inv[i].pc \in {"resume2", "cleanup", "resumed2"}

C10_Witness ==
  \E i \in Levels :
    /\ inv[i].pc = "resume2"
    /\ allocf = [alloc |-> "alloc_fail", ud |-> i]
    /\ inv[i].cleanupCalls = 0

\* C11: alloc_fail answers NULL without calling the saved allocator exactly
\* for the requests with nsize > 0 and (no block or nsize > osize); every
\* other request is handed to the saved allocator with the same arguments
\* and the answer of that allocator is returned.
C11_AllocFailRefusesGrowth ==
  (request.by # "none" /\ request.calls[1].alloc = "alloc_fail")
    => LET growth == request.nsize > 0
                       /\ (request.ptrNull \/ request.nsize > request.osize)
           saved == inv[request.calls[1].ud].as
       IN  /\ growth => (request.ret = "NULL" /\ Len(request.calls) = 1)
           /\ ~growth
                => /\ Len(request.calls) = 2
                   /\ request.calls[2] =
                        [alloc |-> saved.alloc, ud |-> saved.ud,
                         ptrNull |-> request.ptrNull, osize |-> request.osize,
                         nsize |-> request.nsize]
                   /\ request.ret = IF request.nsize = 0 THEN "NULL" ELSE "block"

C11_Witness ==
  /\ request.by = "cleanup"
  /\ request.calls[1].alloc = "alloc_fail"
  /\ ~request.ptrNull /\ request.osize = request.nsize /\ request.nsize > 0
  /\ Len(request.calls) = 2

\* C12: with a true fifth argument, a request for more memory made by the
\* cleanup function is refused, and the memory error it raises in the
\* cleanup function is what finally raises: the results of the main
\* function are not returned and the call does not end normally.
C12_GrowthInCleanupSurfaces ==
  /\ \A i \in Levels :
       (inv[i].arg_debug /\ inv[i].cleanupAsked)
         => /\ ~inv[i].cleanupGrew
            /\ inv[i].cleanupRes = [kind |-> "error", vals |-> <<MSG_MEM>>]
            /\ inv[i].status2 = LUA_ERRMEM
            /\ Ended(inv[i]) => inv[i].result = [kind |-> "raise", vals |-> <<MSG_MEM>>]
  /\ (request.by = "cleanup" /\ inv[request.lvl].arg_debug /\ IsGrowthRequest(request))
       => request.ret = "NULL"

C12_Witness ==
  \E i \in Levels :
    /\ inv[i].arg_debug /\ inv[i].cleanupAsked
    /\ inv[i].mainRes.kind = "ok"
    /\ inv[i].pc = "raised"

\* what finally makes of the outcomes of the two functions
Outcome(mainRes, cleanupRes) ==
  IF cleanupRes.kind = "yield" THEN [kind |-> "raise", vals |-> <<MSG_YIELD>>]
  ELSE IF cleanupRes.kind = "error" THEN [kind |-> "raise", vals |-> cleanupRes.vals]
  ELSE IF mainRes.kind = "error" THEN [kind |-> "raise", vals |-> mainRes.vals]
  ELSE [kind |-> "return", vals |-> mainRes.vals]

\* C13: with a true fifth argument, a cleanup function that asks for no
\* more memory is not made to fail by alloc_fail (its other requests are
\* served while alloc_fail is installed), and what finally returns or
\* raises is determined by the outcomes of the two functions in the same
\* way as with a false fifth argument.
C13_NoGrowthSameOutcome ==
  /\ \A i \in Levels :
       /\ (inv[i].arg_debug /\ ~inv[i].cleanupAsked)
            => inv[i].cleanupRes.vals # <<MSG_MEM>>
       /\ (Ended(inv[i]) /\ inv[i].mainRes.kind # "none"
             /\ (~inv[i].arg_debug \/ ~inv[i].cleanupAsked))
            => inv[i].result = Outcome(inv[i].mainRes, inv[i].cleanupRes)
  /\ (request.by = "cleanup" /\ ~IsGrowthRequest(request))
       => request.ret = IF request.nsize = 0 THEN "NULL" ELSE "block"

C13_Witness ==
  \E i \in Levels :
    /\ inv[i].arg_debug /\ ~inv[i].cleanupAsked
    /\ Has(inv[i].log, "install")
    /\ inv[i].cleanupRes.kind = "ok"
    /\ inv[i].pc = "returned"
    /\ inv[i].result.vals = <<Str("a"), Str("b")>>

\* is the coroutine of activation r suspended in the preallocation function?
Suspended(r) == r.L2status = "yield" /\ r.pc \in {"resumed1", "main", "resume2"}

\* C14 (as stated): the cleanup function runs with the recursively created
\* frames of the preallocation function still live, deeper than the frame
\* that yielded.
C14_CleanupBelowYieldFrame ==
  \A i \in Levels :
    inv[i].cleanupCalls > 0 => inv[i].cleanupDepth > inv[i].suspendDepth

\* C14 (amended): the cleanup function is called by the outermost frame of
\* the preallocation function after all the recursively created frames have
\* returned: it runs one frame below the outermost frame, no deeper than
\* the frame that yielded, in call frames that the preallocation had made
\* live before.
C14_CleanupFromOutermostFrame ==
  \A i \in Levels :
    /\ inv[i].cleanupCalls > 0
         => /\ inv[i].cleanupDepth = 2
            /\ inv[i].cleanupDepth <= inv[i].suspendDepth
    /\ inv[i].pc = "cleanup"
         => /\ Len(inv[i].L2) = 1
            /\ lua_tointeger(inv[i].L2[1].stk, 2) = inv[i].handed

C14_Witness ==
  \E i \in Levels :
    /\ inv[i].pc = "cleanup"
    /\ inv[i].suspendDepth > 2
    /\ Len(inv[i].L2) = 1

C16_FramesLiveAtYield ==
  \A i \in Levels :
    Suspended(inv[i])
      => /\ Len(inv[i].L2) >= inv[i].arg_mincalls + 1
         /\ LUA_VERSION_NUM > 501
              => /\ inv[i].handed = inv[i].arg_mincalls + 1
                 /\ Len(inv[i].L2) - 1 = inv[i].arg_mincalls + 1
                 /\ \A k \in 1..Len(inv[i].L2) :
                      lua_tointeger(inv[i].L2[k].stk, 2) = inv[i].arg_mincalls + 1 - (k - 1)

\* C17: the cleanup function gets exactly one argument, the error of the
\* main function, when the main function failed, and no argument when it
\* succeeded; the results of the main function are never passed to it.
C17_CleanupArguments ==
  \A i \in Levels :
    inv[i].cleanupCalls > 0
      => inv[i].cleanupArgs =
           IF inv[i].mainRes.kind = "error" THEN inv[i].mainRes.vals ELSE <<>>

C17_Witness ==
  \E i \in Levels :
    /\ inv[i].pc = "cleanup"
    /\ inv[i].suspendDepth > 2
    /\ inv[i].cleanupArgs = <<Str("e_main")>>

\* C18: with nested calls of finally, every call that installs alloc_fail
\* puts back the allocator it saved, innermost first: a call that ends
\* leaves the allocator it found, the installed alloc_fail always belongs
\* to a running call and wraps the allocator that call found, and when the
\* outermost call is over the original allocator is installed.
C18_NestedOverridesRestored ==
  /\ \A i \in Levels :
       /\ Ended(inv[i]) => allocf = inv[i].alloc0
       /\ inv[i].as.alloc = "alloc_fail" => inv[i].as.ud < i
  /\ allocf.alloc = "alloc_fail"
       => /\ allocf.ud \in Levels
          /\ inv[allocf.ud].arg_debug
          /\ inv[allocf.ud].as = inv[allocf.ud].alloc0
  /\ inv = <<>> => allocf = L_ALLOC

C18_Witness ==
  \E i \in Levels :
    /\ i > 1
    /\ Ended(inv[i]) /\ Has(inv[i].log, "install") /\ Has(inv[i].log, "restore")
    /\ inv[1].arg_debug /\ inv[1].pc = "main"

\* C20: the alloc_fail of a call of finally is not installed while that
\* call preallocates or runs its main function, only inside the second
\* resume, after the main function has ended; no request of the main
\* function is refused by it.
C20_OwnOverrideNotBeforeSecondResume ==
  /\ \A i \in Levels :
       /\ ~Has(inv[i].log, "resume2") => allocf # [alloc |-> "alloc_fail", ud |-> i]
       /\ Has(inv[i].log, "install")
            => /\ Before(inv[i].log, "main_end", "install")
               /\ Before(inv[i].log, "resume2", "install")
  /\ request.by \in {"lfinally", "main"}
       => \A k \in 1..Len(request.calls) :
            ~(request.calls[k].alloc = "alloc_fail" /\ request.calls[k].ud = request.lvl)

C20_Witness ==
  /\ request.by = "main"
  /\ inv[request.lvl].debug
  /\ IsGrowthRequest(request) /\ request.ret = "block"

Next ==
  \/ Call
  \/ lfinally_args
  \/ lfinally_newthread
  \/ preallocatek_case0
  \/ lfinally_pcall
  \/ main_alloc
  \/ main_end
  \/ lfinally_resume2
  \/ preallocatek_return
  \/ preallocatek_setalloc
  \/ preallocatek_call
  \/ cleanup_alloc
  \/ cleanup_end
  \/ lfinally_reset
  \/ lfinally_merge
  \/ Return

Spec == Init /\ [][Next]_vars

====
